---- MODULE Spec2Model ----
(***************************************************************************)
(* Model of the Gemini File Search service (file_search_service.py) and    *)
(* of the Streamlit session that drives it (app.py).                       *)
(*                                                                         *)
(* The remote service is the environment: every remote call either         *)
(* returns one of a small set of answers or faults.                        *)
(***************************************************************************)
EXTENDS Integers, Sequences, FiniteSets, TLC

VARIABLES
    \* ---- remote service ----
    stores,               \* listing order of the stores: [name, display_name]
    nextStoreId,          \* id the service gives to the next created store
    docs,                 \* documents, in listing order: [parent, display_name, name]
    \* ---- st.session_state ----
    session_store_name,   \* st.session_state.store_name (None when absent)
    files_ready,          \* st.session_state.files_ready
    \* ---- one script run of app.py ----
    appPc,                \* position of the script
    runs,                 \* script runs started so far
    scriptError,          \* exception that ended the script run (None when none)
    \* ---- upload_files ----
    files,                \* the batch: display names of the uploaded files
    skip_duplicates,
    idx,                  \* index of the file the for loop is at
    successes, failures, skipped,
    status,               \* how the last finished turn of the loop counted its file
    existing_doc,         \* what document_exists returned in this turn
    invoked,              \* calls of upload_single_file made by the batch
    remoteCalled,         \* this turn issued an upload, stage, import or operation call
    readyBefore,          \* files_ready when upload_files was entered
    snapshot,             \* display names in the store when upload_files was entered
    checkOut,             \* what the listing of this turn's document_exists yielded
    batchDone,            \* upload_files has returned
    \* ---- upload_single_file ----
    upc,                  \* position inside upload_single_file
    uploaded_file,        \* uploaded_file.name
    store_arg,            \* store_name argument
    status_callback,      \* "None", "sink" or "faulty_sink"
    tmp_path,
    staged_file_name,
    operation,            \* what upload_to_file_search_store or import_file returned
    current,              \* the operation snapshot held by the poll loop
    clock,                \* time.time() - start_time
    elapsed,
    last_status_update,
    wait_time,
    result,               \* the UploadResult decided (None until then)
    tmpExists,            \* the temporary file is on disk
    \* ---- what upload_single_file did (observation) ----
    calls,                \* calls issued, by kind
    apiErr,               \* the direct upload raised APIError
    stagedRet,            \* the name files.upload returned
    importArg,            \* file_name given to import_file
    stagedDeleteArg,      \* name given to files.delete
    tmpCreated,           \* NamedTemporaryFile created the file
    unlinkFault,          \* os.unlink raised OSError
    latencies,            \* latencies a remote fetch can take (seconds)
    docOutcome,           \* what documents.get did: "none", "fault" or the state
    stagedDeleteFault,    \* files.delete raised in the finally block
    \* ---- clear_store ----
    clearResult,          \* the ClearStoreResult returned (None before any call)
    clearDeleteOk,        \* the remote delete of the last clear_store call succeeded
    deleteStoreCalls,     \* remote store deletes issued by the last clear_store call
    clearedSinceResolve,  \* store ids cleared since get_or_create_store last returned
    staleUse,             \* an operation was issued with a cleared store id
    \* ---- get_or_create_store ----
    goc,                  \* the last call: argument, listing seen, outcome
    \* ---- list_store_documents, delete_document, _detect_mime_type ----
    catalog,              \* the last catalog call: arguments, what happened, value
    mime,                 \* the last _detect_mime_type call: arguments and value
    \* ---- concurrent callers of get_or_create_store ----
    race                  \* per caller: position, listing seen, value, create calls

remoteVars == <<stores, nextStoreId, docs>>
sessVars == <<session_store_name, files_ready>>
appVars == <<appPc, runs, scriptError>>
batchRest == <<files, skip_duplicates, idx, successes, failures, skipped, status,
               existing_doc, invoked, readyBefore, snapshot, checkOut, batchDone>>
batchVars == <<batchRest, remoteCalled>>
pipeVars == <<upc, uploaded_file, store_arg, status_callback, tmp_path,
              staged_file_name, operation, current, clock, elapsed, last_status_update,
              wait_time, result, tmpExists>>
verifyObs == <<docOutcome, stagedDeleteFault>>
pipeObs == <<calls, apiErr, stagedRet, importArg, stagedDeleteArg, tmpCreated,
             unlinkFault, latencies, verifyObs>>
clearVars == <<clearResult, clearDeleteOk, deleteStoreCalls, clearedSinceResolve, staleUse>>
gocVars == <<goc>>
unitVars == <<catalog, mime, race>>
vars == <<remoteVars, sessVars, appVars, batchVars, pipeVars, pipeObs, clearVars, gocVars, unitVars>>

----------------------------------------------------------------------------
(* Python values *)

\* Optional[T]: None is the empty sequence, a present value x is <<x>>.
None == <<>>
Some(x) == <<x>>

\* Python truthiness of an Optional[str]: None and "" are falsy.
Truthy(opt) == opt # None /\ opt[1] # ""

Min(a, b) == IF a <= b THEN a ELSE b

----------------------------------------------------------------------------
(* Bounds of the model *)

MaxFiles == 2          \* longest batch
MaxRuns == 2           \* script runs of one session
MaxStores == 2         \* longest initial store listing
MaxCalls == 3          \* calls of get_or_create_store in the registry specification
MaxCallers == 2        \* concurrent callers of get_or_create_store
MaxLatency == 3        \* longest remote fetch, in seconds
MaxDocs == 1           \* documents in the store when the session starts
MaxListed == 2         \* documents in the store of the catalog specification

(* Program constants *)

timeout_seconds == 900
status_interval == 10
initial_wait_time == 2
max_wait_time == 32

FileNames == {"a.pdf", "b.txt"}
StoreNames == {"demo_filesearch_store", "other_store"}
store_display_name == "demo_filesearch_store"
Callbacks == {"None", "sink", "faulty_sink"}
FaultMsgs == {"fault"}            \* str(exc) of a fault
SinkFaultMsg == "sink fault"      \* str(exc) of a fault raised by status_callback
DocStates == {"ACTIVE", "PROCESSING"}
StagedNames == {None, Some(""), Some("files/1")}

CallKinds == {"upload", "stage", "import", "opget", "docget", "stagedDelete", "sink", "sleep"}
NoCalls == [k \in CallKinds |-> 0]
NoListing == [items |-> <<>>, fault |-> FALSE]
Called(k) == [calls EXCEPT ![k] = @ + 1]

----------------------------------------------------------------------------
(* Operation snapshots of the remote service *)

RemoteError == [code |-> "13", message |-> "internal"]

\* A snapshot that is not done carries neither error nor response: the code
\* reads both only after done.
Pending(n) == [name |-> n, done |-> FALSE, error |-> None, document_name |-> None]
Finished(n) ==
    {[name |-> n, done |-> TRUE, error |-> e, document_name |-> d] :
        e \in {None, Some(RemoteError)}, d \in {None, Some("documents/1")}}

\* What upload_to_file_search_store and import_file can return.
NewOperations ==
    UNION {{Pending(n)} \cup Finished(n) : n \in {None, Some("operations/1")}}

\* What operations.get can return for an operation.
Snapshots(op) == {Pending(op.name)} \cup Finished(op.name)

----------------------------------------------------------------------------
(* UploadResult and its messages.  A message is the sequence of the pieces *)
(* its f-string joins.                                                     *)

ExcMsg(m) == <<m>>
NoResourceMsg == <<"Files API did not return a resource name.">>
NoNameMsg == <<"Operation has no name attribute.">>
TimeoutMsg == <<"Indexing timed out after ", ToString(timeout_seconds), " seconds.">>
RemoteMsg(err) == <<err.code, " | ", err.message>>
StateMsg(s) == <<"Document state: ", s>>

UploadResult(name, ok, msg) == [file_name |-> name, success |-> ok, error_message |-> msg]
Success == UploadResult(uploaded_file, TRUE, None)

\* A failed result that leaves error_message at its default.
Failure_NoMessage(msg) == UploadResult(uploaded_file, FALSE, None)

Failure(msg) == UploadResult(uploaded_file, FALSE, Some(msg))

----------------------------------------------------------------------------
(* upload_single_file, one action per step of its body *)

StoreExists(id) == \E i \in DOMAIN stores : stores[i].name = id

\* The return value is decided; the finally block runs before the caller sees it.
Decide(r) ==
    /\ result' = r
    /\ upc' = "cleanup_tmp"

\* A fault that no except clause catches: the finally block runs and the
\* caller gets no UploadResult.
Raise_Propagate(m) == Decide(None)

\* except Exception as exc: a failed UploadResult carrying str(exc).
Raise(m) == Decide(Failure(ExcMsg(m)))

\* An upload, stage, import or operation call is issued.
MarkRemote == remoteCalled' = TRUE

\* An operation issued with store id s.
UseStore(s) == staleUse' = (staleUse \/ s \in clearedSinceResolve)

\* The service may have created the document by the time the call returns.
MayCreateDocument ==
    \E created \in BOOLEAN :
        docs' = IF created /\ StoreExists(store_arg)
                THEN Append(docs, [parent |-> store_arg, display_name |-> uploaded_file,
                                   name |-> Len(docs) + 1])
                ELSE docs

\* Entry: the locals of lines 149-150.
upload_single_file(store, f, cb) ==
    /\ upc' = "tmp"
    /\ uploaded_file' = f
    /\ store_arg' = store
    /\ status_callback' = cb
    /\ tmp_path' = None
    /\ staged_file_name' = None
    /\ operation' = None
    /\ current' = None
    /\ clock' = 0
    /\ elapsed' = 0
    /\ last_status_update' = 0
    /\ wait_time' = initial_wait_time
    /\ result' = None
    /\ tmpExists' = FALSE
    /\ calls' = NoCalls
    /\ apiErr' = FALSE
    /\ stagedRet' = None
    /\ importArg' = None
    /\ stagedDeleteArg' = None
    /\ tmpCreated' = FALSE
    /\ unlinkFault' = FALSE
    /\ docOutcome' = "none"
    /\ stagedDeleteFault' = FALSE
    /\ UNCHANGED latencies

\* with tempfile.NamedTemporaryFile(delete=False) as tmp: write; tmp_path = tmp.name
WriteTemp ==
    /\ upc = "tmp"
    /\ \/ \E m \in FaultMsgs :          \* the file could not be created
            /\ Raise(m)
            /\ UNCHANGED <<tmp_path, tmpExists, tmpCreated>>
       \/ \E m \in FaultMsgs :          \* created, then getvalue() or write() faults
            /\ tmpExists' = TRUE
            /\ tmpCreated' = TRUE
            /\ Raise(m)
            /\ UNCHANGED tmp_path
       \/ /\ tmpExists' = TRUE
          /\ tmpCreated' = TRUE
          /\ tmp_path' = Some("tmp")
          /\ upc' = "upload"
          /\ UNCHANGED result
    /\ UNCHANGED <<uploaded_file, store_arg, status_callback, operation, staged_file_name, current,
                   clock, elapsed, last_status_update, wait_time>>
    /\ UNCHANGED <<calls, apiErr, stagedRet, importArg, stagedDeleteArg, unlinkFault, latencies,
                   verifyObs>>
    /\ UNCHANGED <<remoteVars, sessVars, appVars, batchVars, clearVars, gocVars, unitVars>>

\* client.file_search_stores.upload_to_file_search_store(...)
DirectUploadWith(fallBackOnAnyFault) ==
    /\ upc = "upload"
    /\ calls' = Called("upload")
    /\ MarkRemote
    /\ UseStore(store_arg)
    /\ \/ \E op \in NewOperations :
            /\ operation' = op
            /\ current' = op                 \* current = operation
            /\ upc' = "opname"
            /\ MayCreateDocument
            /\ UNCHANGED <<result, apiErr>>
       \/ /\ apiErr' = TRUE             \* except genai_errors.APIError
          /\ upc' = "stage"
          /\ UNCHANGED <<result, operation, current, docs>>
       \/ \E m \in FaultMsgs :          \* any other fault
            /\ IF fallBackOnAnyFault
               THEN upc' = "stage" /\ UNCHANGED result
               ELSE Raise(m)
            /\ UNCHANGED <<operation, current, apiErr, docs>>
    /\ UNCHANGED <<uploaded_file, store_arg, status_callback, tmp_path, staged_file_name,
                   clock, elapsed, last_status_update, wait_time, tmpExists>>
    /\ UNCHANGED <<stagedRet, importArg, stagedDeleteArg, tmpCreated, unlinkFault, latencies,
                   verifyObs>>
    /\ UNCHANGED <<stores, nextStoreId, sessVars, appVars, gocVars, unitVars>>
    /\ UNCHANGED batchRest
    /\ UNCHANGED <<clearResult, clearDeleteOk, deleteStoreCalls, clearedSinceResolve>>

\* A fallback that every fault of the direct upload triggers.
DirectUpload_FallBackOnAnyFault == DirectUploadWith(TRUE)

DirectUpload == DirectUploadWith(FALSE)

\* file_resource = client.files.upload(...); staged_file_name = getattr(.., "name", None)
StageFile ==
    /\ upc = "stage"
    /\ calls' = Called("stage")
    /\ MarkRemote
    /\ \/ \E n \in StagedNames :
            /\ staged_file_name' = n
            /\ stagedRet' = n
            /\ IF Truthy(n)
               THEN upc' = "import" /\ UNCHANGED result
               ELSE Decide(Failure(NoResourceMsg))
       \/ \E m \in FaultMsgs :
            /\ Raise(m)
            /\ UNCHANGED <<staged_file_name, stagedRet>>
    /\ UNCHANGED <<uploaded_file, store_arg, status_callback, operation, tmp_path, current,
                   clock, elapsed, last_status_update, wait_time, tmpExists>>
    /\ UNCHANGED <<apiErr, importArg, stagedDeleteArg, tmpCreated, unlinkFault, latencies,
                   verifyObs>>
    /\ UNCHANGED <<remoteVars, sessVars, appVars, clearVars, gocVars, unitVars>>
    /\ UNCHANGED batchRest

\* operation = client.file_search_stores.import_file(store_name, staged_file_name)
ImportFile ==
    /\ upc = "import"
    /\ calls' = Called("import")
    /\ importArg' = staged_file_name
    /\ MarkRemote
    /\ UseStore(store_arg)
    /\ \/ \E op \in NewOperations :
            /\ operation' = op
            /\ current' = op                 \* current = operation
            /\ upc' = "opname"
            /\ MayCreateDocument
            /\ UNCHANGED result
       \/ \E m \in FaultMsgs :
            /\ Raise(m)
            /\ UNCHANGED <<operation, current, docs>>
    /\ UNCHANGED <<uploaded_file, store_arg, status_callback, tmp_path, staged_file_name,
                   clock, elapsed, last_status_update, wait_time, tmpExists>>
    /\ UNCHANGED <<apiErr, stagedRet, stagedDeleteArg, tmpCreated, unlinkFault, latencies,
                   verifyObs>>
    /\ UNCHANGED <<stores, nextStoreId, sessVars, appVars, gocVars, unitVars>>
    /\ UNCHANGED batchRest
    /\ UNCHANGED <<clearResult, clearDeleteOk, deleteStoreCalls, clearedSinceResolve>>

\* op_name = getattr(operation, "name", None); the locals of the poll loop
CheckOpNameWith(missing) ==
    /\ upc = "opname"
    /\ IF missing
       THEN /\ Decide(Failure(NoNameMsg))
            /\ UNCHANGED <<clock, last_status_update, wait_time>>
       ELSE /\ clock' = 0                       \* start_time = time.time()
            /\ last_status_update' = 0
            /\ wait_time' = initial_wait_time
            /\ upc' = "loop"
            /\ UNCHANGED result
    /\ UNCHANGED <<uploaded_file, store_arg, status_callback, operation, tmp_path, staged_file_name,
                   current, elapsed, tmpExists>>
    /\ UNCHANGED <<pipeObs, remoteVars, sessVars, appVars, batchVars, clearVars, gocVars, unitVars>>

\* A pipeline that polls whatever operation it was given.
CheckOpName_NoCheck == CheckOpNameWith(FALSE)

CheckOpName == CheckOpNameWith(~Truthy(current.name))

\* while not getattr(current, "done", False): elapsed = ...; the timeout check
PollLoopWith(timedOut) ==
    /\ upc = "loop"
    /\ IF current.done
       THEN /\ upc' = "verify"
            /\ UNCHANGED <<elapsed, result>>
       ELSE /\ elapsed' = clock
            /\ IF timedOut
               THEN Decide(Failure(TimeoutMsg))
               ELSE upc' = "report" /\ UNCHANGED result
    /\ UNCHANGED <<uploaded_file, store_arg, status_callback, operation, tmp_path, staged_file_name,
                   current, clock, last_status_update, wait_time, tmpExists>>
    /\ UNCHANGED <<pipeObs, remoteVars, sessVars, appVars, batchVars, clearVars, gocVars, unitVars>>

\* A timeout check that fires at the bound itself.
PollLoop_AtBound == PollLoopWith(clock >= timeout_seconds)

\* A loop that only the timeout ends: done is not looked at.
PollLoop_IgnoreDone ==
    /\ upc = "loop"
    /\ elapsed' = clock
    /\ IF clock > timeout_seconds
       THEN Decide(Failure(TimeoutMsg))
       ELSE upc' = "report" /\ UNCHANGED result
    /\ UNCHANGED <<uploaded_file, store_arg, status_callback, operation, tmp_path, staged_file_name,
                   current, clock, last_status_update, wait_time, tmpExists>>
    /\ UNCHANGED <<pipeObs, remoteVars, sessVars, appVars, batchVars, clearVars, gocVars, unitVars>>

PollLoop == PollLoopWith(clock > timeout_seconds)

\* if status_callback and (elapsed - last_status_update >= status_interval): ...
PollReportWith(due) ==
    /\ upc = "report"
    /\ IF status_callback # "None" /\ due
       THEN /\ calls' = Called("sink")
            /\ \/ /\ last_status_update' = elapsed
                  /\ upc' = "sleep"
                  /\ UNCHANGED result
               \/ /\ status_callback = "faulty_sink"
                  /\ Raise(SinkFaultMsg)
                  /\ UNCHANGED last_status_update
       ELSE /\ upc' = "sleep"
            /\ UNCHANGED <<calls, last_status_update, result>>
    /\ UNCHANGED <<uploaded_file, store_arg, status_callback, operation, tmp_path, staged_file_name,
                   current, clock, elapsed, wait_time, tmpExists>>
    /\ UNCHANGED <<apiErr, stagedRet, importArg, stagedDeleteArg, tmpCreated, unlinkFault,
                   latencies, verifyObs>>
    /\ UNCHANGED <<remoteVars, sessVars, appVars, batchVars, clearVars, gocVars, unitVars>>

\* A sink that is called at every turn of the loop.
PollReport_EveryTurn == PollReportWith(TRUE)

PollReport == PollReportWith(elapsed - last_status_update >= status_interval)

\* time.sleep(wait_time); wait_time = min(wait_time * 2, max_wait_time)
PollSleepWith(next_wait) ==
    /\ upc = "sleep"
    /\ calls' = Called("sleep")
    /\ clock' = clock + wait_time
    /\ wait_time' = next_wait
    /\ upc' = "fetch"
    /\ UNCHANGED <<uploaded_file, store_arg, status_callback, operation, tmp_path, staged_file_name,
                   current, elapsed, last_status_update, result, tmpExists>>
    /\ UNCHANGED <<apiErr, stagedRet, importArg, stagedDeleteArg, tmpCreated, unlinkFault,
                   latencies, verifyObs>>
    /\ UNCHANGED <<remoteVars, sessVars, appVars, batchVars, clearVars, gocVars, unitVars>>

\* A loop that sleeps the initial wait at every turn.
PollSleep_NoBackoff == PollSleepWith(wait_time)

\* A backoff that doubles without a cap.
PollSleep_NoCap == PollSleepWith(wait_time * 2)

PollSleep == PollSleepWith(Min(wait_time * 2, max_wait_time))

\* current = client.operations.get(current)
PollFetch ==
    /\ upc = "fetch"
    /\ calls' = Called("opget")
    /\ MarkRemote
    /\ \E d \in latencies :
        /\ clock' = clock + d
        /\ \/ \E snap \in Snapshots(current) :
                /\ current' = snap
                /\ upc' = "loop"
                /\ UNCHANGED result
           \/ \E m \in FaultMsgs :
                /\ Raise(m)
                /\ UNCHANGED current
    /\ UNCHANGED <<uploaded_file, store_arg, status_callback, operation, tmp_path, staged_file_name,
                   elapsed, last_status_update, wait_time, tmpExists>>
    /\ UNCHANGED <<apiErr, stagedRet, importArg, stagedDeleteArg, tmpCreated, unlinkFault,
                   latencies, verifyObs>>
    /\ UNCHANGED <<remoteVars, sessVars, appVars, clearVars, gocVars, unitVars>>
    /\ UNCHANGED batchRest

\* error = getattr(current, "error", None); response / document_name
VerifyOperation ==
    /\ upc = "verify"
    /\ IF current.error # None
       THEN Decide(Failure(RemoteMsg(current.error[1])))
       ELSE IF Truthy(current.document_name)
            THEN upc' = "docget" /\ UNCHANGED result
            ELSE Decide(Success)
    /\ UNCHANGED <<uploaded_file, store_arg, status_callback, operation, tmp_path, staged_file_name,
                   current, clock, elapsed, last_status_update, wait_time, tmpExists>>
    /\ UNCHANGED <<pipeObs, remoteVars, sessVars, appVars, batchVars, clearVars, gocVars, unitVars>>

\* document = client.file_search_stores.documents.get(name=document_name)
FetchDocumentWith(onFault) ==
    /\ upc = "docget"
    /\ calls' = Called("docget")
    /\ \/ \E st \in DocStates :
            /\ docOutcome' = st
            /\ IF st = "ACTIVE"
               THEN Decide(Success)
               ELSE Decide(Failure(StateMsg(st)))
       \/ /\ docOutcome' = "fault"     \* except Exception: pass
          /\ Decide(onFault)
    /\ UNCHANGED <<uploaded_file, store_arg, status_callback, operation, tmp_path, staged_file_name,
                   current, clock, elapsed, last_status_update, wait_time, tmpExists>>
    /\ UNCHANGED <<apiErr, stagedRet, importArg, stagedDeleteArg, tmpCreated, unlinkFault,
                   latencies, stagedDeleteFault>>
    /\ UNCHANGED <<remoteVars, sessVars, appVars, batchVars, clearVars, gocVars, unitVars>>

\* A verification that reports a fault of the document fetch as a failure.
FetchDocument_FailOnFault ==
    FetchDocumentWith(Failure(ExcMsg(CHOOSE m \in FaultMsgs : TRUE)))

\* If we got here with no error, assume success.
FetchDocument == FetchDocumentWith(Success)

\* finally: if tmp_path and os.path.exists(tmp_path): os.unlink(tmp_path)
CleanupTempWith(afterFault) ==
    /\ upc = "cleanup_tmp"
    /\ IF tmp_path # None /\ tmpExists
       THEN \/ tmpExists' = FALSE /\ UNCHANGED <<unlinkFault, result>>
            \/ /\ unlinkFault' = TRUE                       \* except OSError: pass
               /\ result' = afterFault
               /\ UNCHANGED tmpExists
       ELSE UNCHANGED <<tmpExists, unlinkFault, result>>
    /\ upc' = "cleanup_staged"
    /\ UNCHANGED <<uploaded_file, store_arg, status_callback, operation, tmp_path, staged_file_name,
                   current, clock, elapsed, last_status_update, wait_time>>
    /\ UNCHANGED <<calls, apiErr, stagedRet, importArg, stagedDeleteArg, tmpCreated, latencies,
                   verifyObs>>
    /\ UNCHANGED <<remoteVars, sessVars, appVars, batchVars, clearVars, gocVars, unitVars>>

\* A cleanup whose fault replaces the result.
CleanupTemp_FaultWins == CleanupTempWith(Failure(ExcMsg(CHOOSE m \in FaultMsgs : TRUE)))

CleanupTemp == CleanupTempWith(result)

\* finally: if staged_file_name: client.files.delete(name=staged_file_name)
CleanupStagedWhen(staged) ==
    /\ upc = "cleanup_staged"
    /\ IF staged
       THEN /\ calls' = Called("stagedDelete")
            /\ stagedDeleteArg' = staged_file_name
            /\ stagedDeleteFault' \in BOOLEAN      \* except Exception: pass
       ELSE UNCHANGED <<calls, stagedDeleteArg, stagedDeleteFault>>
    /\ upc' = "returned"
    /\ UNCHANGED <<uploaded_file, store_arg, status_callback, operation, tmp_path, staged_file_name,
                   current, clock, elapsed, last_status_update, wait_time, result, tmpExists>>
    /\ UNCHANGED <<apiErr, stagedRet, importArg, tmpCreated, unlinkFault, latencies,
                   docOutcome>>
    /\ UNCHANGED <<remoteVars, sessVars, appVars, batchVars, clearVars, gocVars, unitVars>>

\* A cleanup that forgets the staged file of a failed upload.
CleanupStaged_OnSuccess == CleanupStagedWhen(Truthy(staged_file_name) /\ result.success)

CleanupStaged == CleanupStagedWhen(Truthy(staged_file_name))

Pipeline ==
    \/ WriteTemp
    \/ DirectUpload
    \/ StageFile
    \/ ImportFile
    \/ CheckOpName
    \/ PollLoop
    \/ PollReport
    \/ PollSleep
    \/ PollFetch
    \/ VerifyOperation
    \/ FetchDocument
    \/ CleanupTemp
    \/ CleanupStaged

----------------------------------------------------------------------------
(* A caller of upload_single_file alone: one file, any progress sink.      *)

InitLocals ==
    /\ session_store_name = None
    /\ files_ready = FALSE
    /\ runs = 0
    /\ scriptError = None
    /\ files = <<>>
    /\ skip_duplicates = TRUE
    /\ idx = 0
    /\ successes = 0
    /\ failures = 0
    /\ skipped = 0
    /\ status = "NONE"
    /\ existing_doc = None
    /\ invoked = 0
    /\ remoteCalled = FALSE
    /\ readyBefore = FALSE
    /\ snapshot = {}
    /\ checkOut = NoListing
    /\ batchDone = FALSE
    /\ upc = "idle"
    /\ uploaded_file = "a.pdf"
    /\ store_arg = 1
    /\ status_callback = "None"
    /\ tmp_path = None
    /\ staged_file_name = None
    /\ operation = None
    /\ current = None
    /\ clock = 0
    /\ elapsed = 0
    /\ last_status_update = 0
    /\ wait_time = initial_wait_time
    /\ result = None
    /\ tmpExists = FALSE
    /\ calls = NoCalls
    /\ apiErr = FALSE
    /\ stagedRet = None
    /\ importArg = None
    /\ stagedDeleteArg = None
    /\ tmpCreated = FALSE
    /\ unlinkFault = FALSE
    /\ docOutcome = "none"
    /\ stagedDeleteFault = FALSE
    /\ catalog = None
    /\ mime = None
    /\ race = <<>>
    /\ clearResult = None
    /\ clearDeleteOk = FALSE
    /\ deleteStoreCalls = 0
    /\ clearedSinceResolve = {}
    /\ staleUse = FALSE
    /\ goc = None

InitUpload ==
    /\ InitLocals
    /\ stores = <<[name |-> 1, display_name |-> store_display_name]>>
    /\ nextStoreId = 2
    /\ docs = <<>>
    /\ appPc = "unit"
    /\ latencies = {0, MaxLatency}

UploadCall ==
    /\ appPc = "unit"
    /\ upc = "idle"
    /\ \E f \in FileNames, cb \in Callbacks : upload_single_file(1, f, cb)
    /\ UNCHANGED <<remoteVars, sessVars, appVars, batchVars, clearVars, gocVars, unitVars>>

NextUpload == UploadCall \/ Pipeline

SpecUpload == InitUpload /\ [][NextUpload]_vars

\* One call of upload_single_file followed to its end.  A call that has
\* started goes on: the function is one thread of straight-line code, and every
\* remote call and every sleep in it returns or faults.
PollCall ==
    /\ appPc = "unit"
    /\ upc = "idle"
    /\ \E cb \in Callbacks : upload_single_file(1, "a.pdf", cb)
    /\ UNCHANGED <<remoteVars, sessVars, appVars, batchVars, clearVars, gocVars, unitVars>>

NextPoll == PollCall \/ Pipeline

SpecPollFair == InitUpload /\ [][NextPoll]_vars /\ WF_vars(Pipeline)

----------------------------------------------------------------------------
(* The store registry and the document catalog *)

\* for x in listing: if x.display_name == display_name: return ...
RECURSIVE FirstMatchFrom(_, _, _)
FirstMatchFrom(listing, display_name, i) ==
    IF i > Len(listing) THEN 0
    ELSE IF listing[i].display_name = display_name THEN i
    ELSE FirstMatchFrom(listing, display_name, i + 1)

\* A scan that keeps the last match instead of returning at the first.
FirstMatch_Last(listing, display_name) ==
    IF \E i \in DOMAIN listing : listing[i].display_name = display_name
    THEN CHOOSE i \in DOMAIN listing :
            /\ listing[i].display_name = display_name
            /\ \A j \in DOMAIN listing : listing[j].display_name = display_name => j <= i
    ELSE 0

FirstMatch(listing, display_name) == FirstMatchFrom(listing, display_name, 1)

GocCall(display_name, listed, outcome, value, creates, createArg) ==
    [display_name |-> display_name, listed |-> listed, outcome |-> outcome,
     value |-> value, creates |-> creates, createArg |-> createArg]

\* get_or_create_store(client, display_name); a fault of list or create propagates.
get_or_create_store(display_name) ==
    \/ /\ goc' = Some(GocCall(display_name, None, "raised", None, 0, None))
       /\ UNCHANGED <<stores, nextStoreId, clearedSinceResolve>>     \* list() faults
    \/ /\ FirstMatch(stores, display_name) # 0
       /\ goc' = Some(GocCall(display_name, Some(stores), "returned",
                              Some(stores[FirstMatch(stores, display_name)].name), 0, None))
       /\ clearedSinceResolve' = {}
       /\ UNCHANGED <<stores, nextStoreId>>
    \/ /\ FirstMatch(stores, display_name) = 0
       /\ \/ /\ stores' = Append(stores, [name |-> nextStoreId, display_name |-> display_name])
             /\ nextStoreId' = nextStoreId + 1
             /\ goc' = Some(GocCall(display_name, Some(stores), "returned",
                                    Some(nextStoreId), 1, Some(display_name)))
             /\ clearedSinceResolve' = {}
          \/ /\ goc' = Some(GocCall(display_name, Some(stores), "raised", None, 1,
                                    Some(display_name)))          \* create() faults
             /\ UNCHANGED <<stores, nextStoreId, clearedSinceResolve>>

\* The documents of a store, in listing order.
Listing(store) == SelectSeq(docs, LAMBDA d : d.parent = store)

\* What iterating documents.list(parent=store) can do: yield a prefix of the
\* listing and then fault, or yield all of it.
ListingOutcomes(store) ==
    IF ~StoreExists(store)
    THEN {[items |-> <<>>, fault |-> TRUE]}
    ELSE {[items |-> SubSeq(Listing(store), 1, k), fault |-> k < Len(Listing(store))] :
              k \in 0..Len(Listing(store))}

DocumentInfo(doc) == [name |-> doc.name, display_name |-> doc.display_name]

\* list_store_documents: the documents appended before a fault are returned.
list_store_documents(out) == [i \in 1..Len(out.items) |-> DocumentInfo(out.items[i])]

\* document_exists: first match of the items yielded, None on a fault before it.
document_exists(out, display_name) ==
    IF FirstMatch(out.items, display_name) = 0
    THEN None
    ELSE Some(DocumentInfo(out.items[FirstMatch(out.items, display_name)]))

\* What one call of list_store_documents or delete_document did.
CatalogCall(op, display_name, out, value, deletes, deleteArg, force, deleteOk) ==
    [op |-> op, display_name |-> display_name, yielded |-> out.items, fault |-> out.fault,
     value |-> value, deletes |-> deletes, deleteArg |-> deleteArg, force |-> force,
     deleteOk |-> deleteOk]

\* delete_document: the first match of the items yielded is deleted with
\* config={"force": True}; a fault of the listing or of the delete gives False.
delete_document(out, display_name) ==
    LET i == FirstMatch(out.items, display_name)
    IN  IF i = 0
        THEN /\ catalog' = Some(CatalogCall("delete", display_name, out, FALSE, 0, None,
                                            FALSE, FALSE))
             /\ UNCHANGED docs
        ELSE \/ /\ docs' = SelectSeq(docs, LAMBDA d : d.name # out.items[i].name)
                /\ catalog' = Some(CatalogCall("delete", display_name, out, TRUE, 1,
                                               Some(out.items[i].name), TRUE, TRUE))
             \/ /\ UNCHANGED docs          \* except Exception: return False
                /\ catalog' = Some(CatalogCall("delete", display_name, out, FALSE, 1,
                                               Some(out.items[i].name), TRUE, FALSE))

\* ClearStoreResult(deleted=False, errors=None) is the dataclass default.
ClearStoreResult(deleted, errors) == [deleted |-> deleted, errors |-> errors]

\* clear_store(client, store_name)
clear_store(store) ==
    /\ deleteStoreCalls' = 1
    /\ \/ /\ StoreExists(store)
          /\ stores' = SelectSeq(stores, LAMBDA st : st.name # store)
          /\ docs' = SelectSeq(docs, LAMBDA d : d.parent # store)
          /\ clearDeleteOk' = TRUE
          /\ clearResult' = Some(ClearStoreResult(TRUE, None))
       \/ \E m \in FaultMsgs :
          /\ clearDeleteOk' = FALSE
          /\ clearResult' = Some(ClearStoreResult(FALSE, Some(<<m>>)))
          /\ UNCHANGED <<stores, docs>>

----------------------------------------------------------------------------
(* One session of app.py: script runs, each handling at most one click *)

store_name == session_store_name[1]       \* store_name = st.session_state.store_name

ResetBatch ==
    /\ files' = <<>>
    /\ skip_duplicates' = TRUE
    /\ idx' = 0
    /\ successes' = 0
    /\ failures' = 0
    /\ skipped' = 0
    /\ status' = "NONE"
    /\ existing_doc' = None
    /\ invoked' = 0
    /\ remoteCalled' = FALSE
    /\ readyBefore' = FALSE
    /\ snapshot' = {}
    /\ checkOut' = NoListing
    /\ batchDone' = FALSE

\* The locals of upload_single_file are gone once its result is taken.
ResetPipeline ==
    /\ upc' = "idle"
    /\ uploaded_file' = "a.pdf"
    /\ store_arg' = 1
    /\ status_callback' = "None"
    /\ tmp_path' = None
    /\ staged_file_name' = None
    /\ operation' = None
    /\ current' = None
    /\ clock' = 0
    /\ elapsed' = 0
    /\ last_status_update' = 0
    /\ wait_time' = initial_wait_time
    /\ result' = None
    /\ tmpExists' = FALSE
    /\ calls' = NoCalls
    /\ apiErr' = FALSE
    /\ stagedRet' = None
    /\ importArg' = None
    /\ stagedDeleteArg' = None
    /\ tmpCreated' = FALSE
    /\ unlinkFault' = FALSE
    /\ docOutcome' = "none"
    /\ stagedDeleteFault' = FALSE
    /\ UNCHANGED latencies

\* Streamlit runs the script from the top.
ScriptStart ==
    /\ appPc = "idle"
    /\ runs < MaxRuns
    /\ runs' = runs + 1
    /\ appPc' = "resolve"
    /\ scriptError' = None
    /\ ResetBatch
    /\ clearResult' = None
    /\ clearDeleteOk' = FALSE
    /\ deleteStoreCalls' = 0
    /\ UNCHANGED <<remoteVars, sessVars, pipeVars, pipeObs, clearedSinceResolve, staleUse,
                   gocVars, unitVars>>

\* if "store_name" not in st.session_state: ... = get_or_create_store(...)
ResolveStore ==
    /\ appPc = "resolve"
    /\ IF session_store_name = None
       THEN /\ get_or_create_store(store_display_name)
            /\ IF goc'[1].outcome = "returned"
               THEN /\ session_store_name' = goc'[1].value
                    /\ appPc' = "list"
                    /\ UNCHANGED scriptError
               ELSE /\ scriptError' = Some("Exception")
                    /\ appPc' = "idle"
                    /\ UNCHANGED session_store_name
       ELSE /\ appPc' = "list"
            /\ UNCHANGED <<session_store_name, scriptError, stores, nextStoreId, goc,
                           clearedSinceResolve>>
    /\ UNCHANGED <<docs, files_ready, runs, batchVars, pipeVars, pipeObs, unitVars>>
    /\ UNCHANGED <<clearResult, clearDeleteOk, deleteStoreCalls, staleUse>>

\* existing_docs = list_store_documents(client, store_name); files_ready
ListExisting ==
    /\ appPc = "list"
    /\ UseStore(store_name)
    /\ \E out \in ListingOutcomes(store_name) :
            files_ready' = (list_store_documents(out) # <<>>)
    /\ appPc' = "widgets"
    /\ UNCHANGED <<remoteVars, session_store_name, runs, scriptError, batchVars, pipeVars,
                   pipeObs, gocVars, unitVars>>
    /\ UNCHANGED <<clearResult, clearDeleteOk, deleteStoreCalls, clearedSinceResolve>>

\* The script reaches its end with no button pressed and no prompt.
NoInteraction ==
    /\ appPc = "widgets"
    /\ appPc' = "idle"
    /\ UNCHANGED <<remoteVars, sessVars, runs, scriptError, batchVars, pipeVars, pipeObs,
                   clearVars, gocVars, unitVars>>

\* The session is checked against a slow remote service: one fetch of an
\* operation takes the whole timeout, so an operation still pending at its
\* first fetch times out.  Every outcome of upload_single_file stays reachable.
SlowFetch == timeout_seconds

Batches == UNION {[1..n -> FileNames] : n \in 0..MaxFiles}

\* upload_files(files, skip_duplicates), up to the for loop.  The button
\* handler calls it with a non-empty list and the default flag; the function
\* is modelled for every argument.
upload_files ==
    /\ appPc = "widgets"
    /\ \E fs \in Batches, skip \in BOOLEAN :
        /\ files' = fs
        /\ skip_duplicates' = skip
        /\ readyBefore' = files_ready
        /\ snapshot' = {Listing(store_name)[i].display_name : i \in DOMAIN Listing(store_name)}
        /\ checkOut' = NoListing
        /\ successes' = 0
        /\ failures' = 0
        /\ skipped' = 0
        /\ status' = "NONE"
        /\ existing_doc' = None
        /\ invoked' = 0
        /\ remoteCalled' = FALSE
        /\ IF fs = <<>>
           THEN /\ files_ready' = FALSE            \* if not files: ... return
                /\ batchDone' = TRUE
                /\ idx' = 0
                /\ appPc' = "idle"
           ELSE /\ idx' = 1
                /\ batchDone' = FALSE
                /\ appPc' = "batch"
                /\ UNCHANGED files_ready
    /\ UNCHANGED <<remoteVars, session_store_name, runs, scriptError, pipeVars, pipeObs,
                   clearVars, gocVars, unitVars>>

\* One turn of the for loop up to the call of upload_single_file:
\* existing_doc = document_exists(...); skip, or dispatch the pipeline.
BatchFileWith(skip) ==
    /\ appPc = "batch"
    /\ upc = "idle"
    /\ idx <= Len(files)
    /\ UseStore(store_name)
    /\ remoteCalled' = FALSE
    /\ \E out \in ListingOutcomes(store_name) :
        /\ checkOut' = out
        /\ existing_doc' = document_exists(out, files[idx])
        /\ IF document_exists(out, files[idx]) # None /\ skip
           THEN /\ skipped' = skipped + 1
                /\ status' = "SKIPPED"
                /\ idx' = idx + 1                   \* continue
                /\ UNCHANGED <<invoked, pipeVars, pipeObs>>
           ELSE /\ invoked' = invoked + 1
                /\ upload_single_file(store_name, files[idx], "sink")
                /\ UNCHANGED <<skipped, status, idx>>
    /\ UNCHANGED <<remoteVars, sessVars, appVars, gocVars, unitVars>>
    /\ UNCHANGED <<files, skip_duplicates, successes, failures, readyBefore, snapshot,
                   batchDone>>
    /\ UNCHANGED <<clearResult, clearDeleteOk, deleteStoreCalls, clearedSinceResolve>>

\* A loop that skips every file already in the store, whatever the flag.
BatchFile_IgnoreFlag == BatchFileWith(TRUE)

BatchFile == BatchFileWith(skip_duplicates)

\* The rest of the turn: count the result of upload_single_file.
BatchCollectWith(failed, next) ==
    /\ appPc = "batch"
    /\ upc = "returned"
    /\ IF result.success
       THEN /\ successes' = successes + 1
            /\ status' = "OK"
            /\ UNCHANGED failures
       ELSE /\ failures' = failures + failed
            /\ status' = "FAILED"
            /\ UNCHANGED successes
    /\ idx' = next
    /\ ResetPipeline
    /\ UNCHANGED <<remoteVars, sessVars, appVars, clearVars, gocVars, unitVars>>
    /\ UNCHANGED <<files, skip_duplicates, skipped, existing_doc, invoked, remoteCalled,
                   readyBefore, snapshot, checkOut, batchDone>>

\* A loop that does not count a failed file.
BatchCollect_DropFailure == BatchCollectWith(0, idx + 1)

\* A loop that a failed file ends.
BatchCollect_StopOnFailure ==
    BatchCollectWith(1, IF result.success THEN idx + 1 ELSE Len(files) + 1)

BatchCollect == BatchCollectWith(1, idx + 1)

\* The summary after the loop; st.rerun() ends the script run.
BatchSummaryWith(keep) ==
    /\ appPc = "batch"
    /\ upc = "idle"
    /\ idx > Len(files)
    /\ IF successes > 0
       THEN files_ready' = TRUE
       ELSE IF keep
            THEN UNCHANGED files_ready
            ELSE files_ready' = FALSE
    /\ batchDone' = TRUE
    /\ appPc' = "idle"
    /\ UNCHANGED <<remoteVars, session_store_name, runs, scriptError, pipeVars, pipeObs,
                   clearVars, gocVars, unitVars>>
    /\ UNCHANGED <<files, skip_duplicates, idx, successes, failures, skipped, status,
                   existing_doc, invoked, remoteCalled, readyBefore, snapshot, checkOut>>

\* A summary that clears the flag whenever nothing succeeded.
BatchSummary_ClearUnlessSucceeded == BatchSummaryWith(FALSE)

BatchSummary == BatchSummaryWith(skipped > 0 /\ failures = 0)

\* if st.sidebar.button("Clear store"): result = clear_store(client, store_name);
\* result.removed is no attribute of ClearStoreResult, so the handler ends there:
\* the session keeps its store_name.
ClearClick ==
    /\ appPc = "widgets"
    /\ clear_store(store_name)
    /\ clearedSinceResolve' = IF clearDeleteOk'
                              THEN clearedSinceResolve \cup {store_name}
                              ELSE clearedSinceResolve
    /\ scriptError' = Some("AttributeError")
    /\ appPc' = "idle"
    /\ UNCHANGED <<nextStoreId, sessVars, runs, batchVars, pipeVars, pipeObs, staleUse,
                   gocVars, unitVars>>

\* if prompt: client.models.generate_content(... file_search_store_names=[store_name])
ChatQuery ==
    /\ appPc = "widgets"
    /\ files_ready                       \* the chat input is disabled otherwise
    /\ UseStore(store_name)
    /\ appPc' = "idle"
    /\ UNCHANGED <<remoteVars, sessVars, runs, scriptError, batchVars, pipeVars, pipeObs,
                   gocVars, unitVars>>
    /\ UNCHANGED <<clearResult, clearDeleteOk, deleteStoreCalls, clearedSinceResolve>>

InitialStores == {<<>>, <<[name |-> 1, display_name |-> store_display_name]>>}

InitialDocs(ss) ==
    UNION {{[i \in 1..n |-> [parent |-> st[i].name, display_name |-> f[i], name |-> i]] :
                st \in [1..n -> {ss[i] : i \in DOMAIN ss}], f \in [1..n -> FileNames]} :
               n \in 0..MaxDocs}

Init ==
    /\ InitLocals
    /\ stores \in InitialStores
    /\ nextStoreId = Len(stores) + 1
    /\ docs \in InitialDocs(stores)
    /\ appPc = "idle"
    /\ latencies = {SlowFetch}

Next ==
    \/ ScriptStart
    \/ ResolveStore
    \/ ListExisting
    \/ NoInteraction
    \/ upload_files
    \/ BatchFile
    \/ BatchCollect
    \/ BatchSummary
    \/ ClearClick
    \/ ChatQuery
    \/ Pipeline

Spec == Init /\ [][Next]_vars

----------------------------------------------------------------------------
(* Callers of get_or_create_store alone, against any store listing *)

StoreListings ==
    UNION {{[i \in 1..n |-> [name |-> i, display_name |-> dn[i]]] : dn \in [1..n -> StoreNames]} :
               n \in 0..MaxStores}

InitStore ==
    /\ InitLocals
    /\ stores \in StoreListings
    /\ nextStoreId = Len(stores) + 1
    /\ docs = <<>>
    /\ appPc = "registry"
    /\ latencies = {0}

StoreCall ==
    /\ appPc = "registry"
    /\ runs < MaxCalls
    /\ runs' = runs + 1
    /\ \E display_name \in StoreNames : get_or_create_store(display_name)
    /\ UNCHANGED <<docs, sessVars, appPc, scriptError, batchVars, pipeVars, pipeObs,
                   unitVars>>
    /\ UNCHANGED <<clearResult, clearDeleteOk, deleteStoreCalls, staleUse>>

NextStore == StoreCall

SpecStore == InitStore /\ [][NextStore]_vars

----------------------------------------------------------------------------
(* Callers of list_store_documents and delete_document alone *)

CatalogDocs ==
    UNION {{[i \in 1..n |-> [parent |-> 1, display_name |-> f[i], name |-> i]] :
                f \in [1..n -> FileNames]} : n \in 0..MaxListed}

InitCatalog ==
    /\ InitLocals
    /\ stores = <<[name |-> 1, display_name |-> store_display_name]>>
    /\ nextStoreId = 2
    /\ docs \in CatalogDocs
    /\ appPc = "catalog"
    /\ latencies = {0}

ListCall ==
    /\ appPc = "catalog"
    /\ runs < MaxCalls
    /\ runs' = runs + 1
    /\ \E out \in ListingOutcomes(1) :
            catalog' = Some(CatalogCall("list", "", out, list_store_documents(out), 0, None,
                                       FALSE, FALSE))
    /\ UNCHANGED <<remoteVars, sessVars, appPc, scriptError, batchVars, pipeVars, pipeObs,
                   clearVars, gocVars, mime, race>>

DeleteCall ==
    /\ appPc = "catalog"
    /\ runs < MaxCalls
    /\ runs' = runs + 1
    /\ \E out \in ListingOutcomes(1), display_name \in FileNames :
            delete_document(out, display_name)
    /\ UNCHANGED <<stores, nextStoreId, sessVars, appPc, scriptError, batchVars, pipeVars,
                   pipeObs, clearVars, gocVars, mime, race>>

NextCatalog == ListCall \/ DeleteCall

SpecCatalog == InitCatalog /\ [][NextCatalog]_vars

----------------------------------------------------------------------------
(* _detect_mime_type.  A file name is the sequence of its characters. *)

\* str.lower() on the characters the file names are made of.
Lower_Identity(c) == c

Lower(c) ==
    CASE c = "P" -> "p"
      [] c = "D" -> "d"
      [] c = "F" -> "f"
      [] c = "T" -> "t"
      [] c = "X" -> "x"
      [] c = "E" -> "e"
      [] OTHER -> c

lower(str) == [i \in DOMAIN str |-> Lower(str[i])]

\* str.rfind(ch) + 1: the last position of ch, 0 when there is none.
RFind(str, ch) ==
    IF \E i \in DOMAIN str : str[i] = ch
    THEN CHOOSE i \in DOMAIN str : str[i] = ch /\ \A j \in DOMAIN str : str[j] = ch => j <= i
    ELSE 0

\* os.path.splitext(p)[1] (posixpath): the text from the last dot of the last
\* path component, empty when that component has no dot or only leading dots.
splitext_ext(path) ==
    LET sepIndex == RFind(path, "/")
        dotIndex == RFind(path, ".")
    IN  IF dotIndex > sepIndex
           /\ \E k \in (sepIndex + 1)..(dotIndex - 1) : path[k] # "."
        THEN SubSeq(path, dotIndex, Len(path))
        ELSE <<>>

mime_types ==
    [ext \in {<<".", "p", "d", "f">>, <<".", "t", "x", "t">>, <<".", "t", "e", "x", "t">>} |->
        IF ext = <<".", "p", "d", "f">> THEN "application/pdf" ELSE "text/plain"]

\* _detect_mime_type(file_name, provided_type)
detect_mime_type(file_name, provided_type) ==
    IF Truthy(provided_type)
    THEN provided_type[1]
    ELSE LET file_ext == lower(splitext_ext(file_name))
         IN  IF file_ext \in DOMAIN mime_types
             THEN mime_types[file_ext]
             ELSE "application/octet-stream"

Stems ==
    {<<>>, <<"a">>, <<".">>, <<".", ".">>, <<"a", ".", "b">>, <<"d", ".", "d", "/">>,
     <<"d", "/", "a">>, <<"a", "/", ".">>}

Suffixes ==
    {<<>>, <<".", "p", "d", "f">>, <<".", "P", "D", "F">>, <<".", "P", "d", "f">>,
     <<".", "t", "x", "t">>, <<".", "T", "X", "T">>, <<".", "t", "e", "x", "t">>,
     <<".", "T", "e", "x", "t">>, <<".", "d", "o", "c">>, <<".", "p", "d", "f", ".">>,
     <<"p", "d", "f">>, <<".", "t", "x">>}

MimeFileNames == {stem \o suffix : stem \in Stems, suffix \in Suffixes}

ProvidedTypes == {None, Some(""), Some("application/pdf"), Some("image/png")}

InitMime ==
    /\ InitLocals
    /\ stores = <<>>
    /\ nextStoreId = 1
    /\ docs = <<>>
    /\ appPc = "mime"
    /\ latencies = {0}

MimeCall ==
    /\ appPc = "mime"
    /\ runs < MaxCalls
    /\ runs' = runs + 1
    /\ \E file_name \in MimeFileNames, provided_type \in ProvidedTypes :
            mime' = Some([file_name |-> file_name, provided_type |-> provided_type,
                          value |-> detect_mime_type(file_name, provided_type)])
    /\ UNCHANGED <<remoteVars, sessVars, appPc, scriptError, batchVars, pipeVars, pipeObs,
                   clearVars, gocVars, catalog, race>>

NextMime == MimeCall

SpecMime == InitMime /\ [][NextMime]_vars

----------------------------------------------------------------------------
(* Claims about upload_single_file (specification SpecUpload) *)

Returned == upc = "returned"

\* The poll loop was entered: an operation with a name was obtained.
Polled == calls["upload"] = 1 /\ current # None /\ Truthy(current.name)

\* The result reports a fault caught by "except Exception".
Faulted ==
    result.error_message \in {Some(ExcMsg(m)) : m \in FaultMsgs \cup {SinkFaultMsg}}

\* C1: after upload_single_file returns, the temporary file created by the call
\* no longer exists, whichever step after its creation faulted (writing the
\* bytes, direct upload, staging, import, operation fetch, sink, document
\* fetch).  A fault of the removal itself is not among the listed faults.
C1_TempFileRemoved ==
    (Returned /\ tmpCreated /\ ~unlinkFault) => ~tmpExists

\* C2: when the direct upload raises APIError and staging returns a staged
\* file id, import_file is called with that id and exactly one delete is
\* issued against that id before upload_single_file returns, whatever the
\* outcome; no delete is ever issued against anything else.
C2_StagedFileDeleted ==
    /\ calls["stagedDelete"] <= 1
    /\ calls["stagedDelete"] = 1 => stagedDeleteArg = stagedRet /\ Truthy(stagedRet)
    /\ (Returned /\ apiErr /\ Truthy(stagedRet)) =>
            /\ calls["import"] = 1
            /\ importArg = stagedRet
            /\ calls["stagedDelete"] = 1

\* The fallback ran, the operation timed out, and the staged file was deleted.
C2_Witness ==
    /\ Returned
    /\ apiErr
    /\ stagedRet = Some("files/1")
    /\ result = Failure(TimeoutMsg)
    /\ calls["stagedDelete"] = 1

\* C10 as claimed: an operation that did not report done within the timeout
\* bound always yields the timeout failure, never a success or a remote-error
\* result (runs in which a fetch or the sink faulted set aside).
C10_TimeoutAlways ==
    (Returned /\ Polled /\ ~Faulted /\ ~(current.done /\ clock <= timeout_seconds))
        => result = Failure(TimeoutMsg)

\* C10 as amended: when no fetch and no sink call faults and every snapshot
\* obtained reports done = false, including the one fetched after the last
\* sleep that began within the bound, the result is the timeout failure, with
\* no remote error code or message; and the timeout failure is returned only
\* for an operation still not done after more than timeout_seconds.
C10_TimeoutWhenNeverDone ==
    /\ (Returned /\ Polled /\ ~Faulted /\ ~current.done) =>
            /\ result = Failure(TimeoutMsg)
            /\ elapsed > timeout_seconds
    /\ (Returned /\ result = Failure(TimeoutMsg)) =>
            /\ ~current.done
            /\ elapsed > timeout_seconds
            /\ result.error_message # Some(RemoteMsg(RemoteError))

C10_Witness ==
    /\ Returned
    /\ Polled
    /\ ~current.done
    /\ result = Failure(TimeoutMsg)
    /\ calls["opget"] > 0

----------------------------------------------------------------------------
(* Claims about upload_files (specification Spec) *)

\* A turn of the for loop has finished, and no later turn has started.
TurnDone == idx > 1 /\ upc = "idle"
LastFile == files[idx - 1]

\* C3: each file of the batch is counted in exactly one of skipped, succeeded
\* and failed: the three counts add up to the number of finished turns all
\* along, and to the number of input files when the batch finishes.
C3_CountsAddUp ==
    /\ appPc = "batch" => skipped + successes + failures = idx - 1
    /\ batchDone => skipped + successes + failures = Len(files)

\* A finished batch of two files, one skipped and one failed.
C3_Witness ==
    /\ batchDone
    /\ Len(files) = 2
    /\ skipped = 1
    /\ failures = 1

C5_EachFileOnce ==
    /\ appPc = "batch" =>
            invoked = (idx - 1) - skipped + (IF upc = "idle" THEN 0 ELSE 1)
    /\ (appPc = "batch" /\ upc = "idle") => invoked = successes + failures
    /\ batchDone =>
            /\ invoked = Len(files) - skipped
            /\ files # <<>> => idx = Len(files) + 1

\* The first file of a batch failed and the second was still uploaded.
C5_Witness ==
    /\ batchDone
    /\ Len(files) = 2
    /\ failures = 1
    /\ status = "OK"
    /\ invoked = 2

\* C6 as claimed: with the skip flag set, a file is skipped, and no remote
\* upload call is issued for it, exactly when its display name was in the
\* store before the batch started.
C6_SkipIffInSnapshot ==
    (TurnDone /\ skip_duplicates) =>
        /\ LastFile \in snapshot <=> status = "SKIPPED"
        /\ status = "SKIPPED" => ~remoteCalled

\* C6 as amended: a file is skipped, with no upload, staging, import or
\* operation call issued for it, exactly when the flag is set and the listing
\* made for it at its turn yields a document with its display name before any
\* fault; every other file is dispatched to upload_single_file and counted by
\* its result.
C6_SkipIffListed ==
    TurnDone =>
        /\ status = "SKIPPED" <=>
                /\ skip_duplicates
                /\ \E i \in DOMAIN checkOut.items : checkOut.items[i].display_name = LastFile
        /\ status = "SKIPPED" =>
                /\ ~remoteCalled
                /\ \E i \in DOMAIN docs :
                        docs[i].parent = store_name /\ docs[i].display_name = LastFile
        /\ status # "SKIPPED" => status \in {"OK", "FAILED"}

\* A file whose name was not in the store before the batch is skipped: an
\* earlier file of the batch created the document.
C6_Witness ==
    /\ TurnDone
    /\ skip_duplicates
    /\ status = "SKIPPED"
    /\ LastFile \notin snapshot
    /\ ~remoteCalled

----------------------------------------------------------------------------
(* Claims about the store registry and the store lifecycle *)

\* C7: get_or_create_store returns the id of the first listed store whose
\* display_name is the one asked for and never calls create; when no listed
\* store matches it calls create exactly once, with that display_name, and
\* returns the id of the store created.
C7_FirstMatchOrCreate ==
    (goc # None /\ goc[1].outcome = "returned") =>
        LET c == goc[1]
            listed == c.listed[1]
            matches == {i \in DOMAIN listed : listed[i].display_name = c.display_name}
        IN  IF matches # {}
            THEN /\ c.creates = 0
                 /\ \E i \in matches :
                        /\ \A j \in matches : i <= j
                        /\ c.value = Some(listed[i].name)
                 /\ stores = listed
            ELSE /\ c.creates = 1
                 /\ c.createArg = Some(c.display_name)
                 /\ \A i \in DOMAIN listed : c.value # Some(listed[i].name)
                 /\ stores = Append(listed, [name |-> c.value[1],
                                             display_name |-> c.display_name])

\* Two listed stores carry the name asked for; the first one is returned.
C7_Witness ==
    /\ goc # None
    /\ goc[1].outcome = "returned"
    /\ goc[1].creates = 0
    /\ Len(goc[1].listed[1]) = 2
    /\ \A i \in 1..2 : goc[1].listed[1][i].display_name = goc[1].display_name
    /\ goc[1].value = Some(goc[1].listed[1][1].name)

\* C8: no operation of the session (listing, duplicate check, upload, query)
\* is issued with a store id that clear_store has cleared, unless
\* get_or_create_store has returned in between.
C8_NoUseOfClearedStore == ~staleUse

\* C9: clear_store issues a single remote delete and returns deleted = true
\* with errors the empty list when the delete succeeds, deleted = false with
\* errors the one-element list of the fault message when it faults.
C9_ClearResult ==
    clearResult # None =>
        /\ deleteStoreCalls = 1
        /\ clearDeleteOk => clearResult[1] = ClearStoreResult(TRUE, Some(<<>>))
        /\ ~clearDeleteOk =>
                \E m \in FaultMsgs : clearResult[1] = ClearStoreResult(FALSE, Some(<<m>>))

----------------------------------------------------------------------------
(* Claims about the poll loop of upload_single_file (specification SpecUpload) *)

\* The poll loop was entered.
Polling == upc \in {"loop", "report", "sleep", "fetch", "verify", "docget"}

C12_DoneStopsPolling ==
    [][/\ (upc # "idle" /\ current # None /\ current.done) =>
            /\ calls'["opget"] = calls["opget"]
            /\ calls'["sleep"] = calls["sleep"]
            /\ current' = current
       /\ (current' # None /\ current'.done /\ upc' # "idle") =>
            calls'["sleep"] = calls'["opget"]
      ]_vars

\* The second fetched snapshot was the first one done, and the run returned
\* after two fetches and two sleeps.
C12_Witness ==
    /\ Returned
    /\ Polled
    /\ current.done
    /\ calls["opget"] = 2
    /\ calls["sleep"] = 2

----------------------------------------------------------------------------
(* Claims about the results of upload_single_file (specification SpecUpload) *)

\* The operation ended with done=true and no error, and was verified.
DoneOk ==
    /\ Returned
    /\ Polled
    /\ current.done
    /\ current.error = None

\* C13: when the operation ends with done=true and no error, the result is
\* success exactly when the response names no document, or the document fetch
\* faults, or the fetched state is ACTIVE; any other fetched state gives a
\* failure whose message names that state.
C13_VerifiedOutcome ==
    DoneOk =>
        /\ result.success <=>
                \/ ~Truthy(current.document_name)
                \/ docOutcome = "fault"
                \/ docOutcome = "ACTIVE"
        /\ Truthy(current.document_name) <=> calls["docget"] = 1
        /\ ~Truthy(current.document_name) => docOutcome = "none"
        /\ Truthy(current.document_name) => docOutcome \in DocStates \cup {"fault"}
        /\ docOutcome \in DocStates \ {"ACTIVE"} => result = Failure(StateMsg(docOutcome))

\* The document fetch faulted and the upload is reported as a success.
C13_Witness ==
    /\ DoneOk
    /\ Truthy(current.document_name)
    /\ docOutcome = "fault"
    /\ result = Success

\* The positions upload_single_file can be at; none of them is an exception
\* on its way to the caller.
Positions ==
    {"idle", "tmp", "upload", "stage", "import", "opname", "loop", "report", "sleep",
     "fetch", "verify", "docget", "cleanup_tmp", "cleanup_staged", "returned"}

\* The messages a failed result can carry.
Messages ==
    {ExcMsg(m) : m \in FaultMsgs \cup {SinkFaultMsg}} \cup {NoResourceMsg, NoNameMsg, TimeoutMsg}
        \cup {RemoteMsg(RemoteError)} \cup {StateMsg(st) : st \in DocStates}

\* C14: no fault crosses to the caller of upload_single_file: whichever step
\* faults, the call returns an UploadResult for its file, and every failed
\* result carries a message.
C14_AlwaysAResult ==
    /\ upc \in Positions
    /\ Returned =>
        /\ result # None
        /\ result.file_name = uploaded_file
        /\ result.success \in BOOLEAN
        /\ ~result.success => \E msg \in Messages : result.error_message = Some(msg)
    /\ upc \in {"cleanup_tmp", "cleanup_staged"} => result # None

\* The progress sink faulted and the call returned a failure with its message.
C14_Witness ==
    /\ Returned
    /\ status_callback = "faulty_sink"
    /\ calls["sink"] = 1
    /\ last_status_update = 0
    /\ Faulted
    /\ result.file_name = uploaded_file

\* C15: the outcome is decided before the cleanup and the cleanup cannot
\* change it: neither step of the finally block, whether its removal succeeds
\* or faults, touches the UploadResult that was decided.
C15_CleanupKeepsResult ==
    [][/\ upc \in {"cleanup_tmp", "cleanup_staged"} => result # None
       /\ upc \in {"cleanup_tmp", "cleanup_staged"} => result' = result
       /\ upc = "cleanup_tmp" => upc' = "cleanup_staged"
       /\ upc = "cleanup_staged" => upc' = "returned"
      ]_vars

\* Both removals faulted and the call still returned its success.
C15_Witness ==
    /\ Returned
    /\ unlinkFault
    /\ stagedDeleteFault
    /\ result = Success

\* C18: in every UploadResult returned, success is true exactly when
\* error_message is None.
C18_SuccessIffNoMessage ==
    Returned => (result.success <=> result.error_message = None)

\* A failed result carrying the remote error as its message.
C18_Witness ==
    /\ Returned
    /\ ~result.success
    /\ result.error_message = Some(RemoteMsg(RemoteError))

----------------------------------------------------------------------------
(* The backoff of the poll loop (specification SpecUpload) *)

\* min(2 * 2^(i-1), 32), the exponent kept small.
BackoffWait(i) == IF i > 5 THEN max_wait_time ELSE Min(2 * 2^(i - 1), max_wait_time)

\* C20: the i-th sleep of a poll run lasts min(2 * 2^(i-1), 32) seconds: the
\* wait never decreases and never exceeds 32, and exactly one fetch of the
\* operation follows each sleep.
C20_CappedBackoff ==
    [][/\ calls'["sleep"] = calls["sleep"] + 1 =>
            /\ clock' - clock = BackoffWait(calls'["sleep"])
            /\ wait_time' >= wait_time
            /\ wait_time <= max_wait_time
            /\ upc' = "fetch"
            /\ calls'["opget"] = calls["opget"]
       /\ calls'["opget"] = calls["opget"] + 1 =>
            /\ upc = "fetch"
            /\ calls["sleep"] = calls["opget"] + 1
       /\ upc' = "fetch" <=> calls'["sleep"] = calls'["opget"] + 1
       /\ upc' # "fetch" => calls'["sleep"] = calls'["opget"]
      ]_vars

\* A run that slept seven times, its last two sleeps at the cap.
C20_Witness ==
    /\ Polling
    /\ calls["sleep"] = 7
    /\ calls["opget"] = 7
    /\ wait_time = max_wait_time
    /\ clock >= 2 + 4 + 8 + 16 + 32 + 32 + 32

----------------------------------------------------------------------------
(* Claims about the document catalog (specification SpecCatalog) *)

\* C16: list_store_documents returns an empty sequence whenever the listing
\* faults, also when the fault comes after some documents were yielded.
C16_FaultGivesEmpty ==
    (catalog # None /\ catalog[1].op = "list" /\ catalog[1].fault) =>
        catalog[1].value = <<>>

\* The matches of a delete_document call among the documents its listing yielded.
DeleteMatches ==
    {i \in DOMAIN catalog[1].yielded :
        catalog[1].yielded[i].display_name = catalog[1].display_name}

\* C17: delete_document returns true if and only if the listing yields a
\* document with the display name asked for and the forced delete of the
\* first such document succeeds; it issues one delete call for that document
\* when there is a match and none otherwise, and returns false when the
\* listing faults before a match or the delete faults.
C17_DeleteFirstMatch ==
    (catalog # None /\ catalog[1].op = "delete") =>
        LET c == catalog[1]
        IN  /\ c.value \in BOOLEAN
            /\ c.value <=> (DeleteMatches # {} /\ c.deleteOk)
            /\ c.deletes <= 1
            /\ DeleteMatches = {} => c.deletes = 0 /\ c.deleteArg = None
            /\ DeleteMatches # {} =>
                    /\ c.deletes = 1
                    /\ c.force
                    /\ \E i \in DeleteMatches :
                            /\ \A j \in DeleteMatches : i <= j
                            /\ c.deleteArg = Some(c.yielded[i].name)
            /\ c.value => \A k \in DOMAIN docs : Some(docs[k].name) # c.deleteArg

\* Two documents carry the name; the first is deleted and the second stays.
C17_Witness ==
    /\ catalog # None
    /\ catalog[1].op = "delete"
    /\ catalog[1].value = TRUE
    /\ Len(catalog[1].yielded) = 2
    /\ DeleteMatches = {1, 2}
    /\ catalog[1].deleteArg = Some(catalog[1].yielded[1].name)
    /\ Len(docs) = 1

----------------------------------------------------------------------------
(* Claims about _detect_mime_type (specification SpecMime) *)

\* The file name ends, whatever the case of its letters, with the suffix, and
\* the suffix is the extension of its last path component: a character other
\* than a dot comes before it in that component.
UpperOf ==
    {<<"P", "p">>, <<"D", "d">>, <<"F", "f">>, <<"T", "t">>, <<"X", "x">>, <<"E", "e">>}

HasExtension(name, suffix) ==
    /\ Len(name) > Len(suffix)
    /\ \A i \in 1..Len(suffix) :
            \/ name[Len(name) - Len(suffix) + i] = suffix[i]
            \/ <<name[Len(name) - Len(suffix) + i], suffix[i]>> \in UpperOf
    /\ \E k \in 1..(Len(name) - Len(suffix)) :
            /\ name[k] # "."
            /\ \A j \in k..(Len(name) - Len(suffix)) : name[j] # "/"

\* C19: a non-empty provided type is returned unchanged whatever the file
\* name; otherwise the lower-cased extension maps pdf to application/pdf, txt
\* and text to text/plain, and every other or missing extension to
\* application/octet-stream; the function has a value for every input.
C19_MimeType ==
    mime # None =>
        LET name == mime[1].file_name
            given == mime[1].provided_type
            value == mime[1].value
        IN  /\ (given # None /\ given[1] # "") => value = given[1]
            /\ (given = None \/ given = Some("")) =>
                    /\ HasExtension(name, <<".", "p", "d", "f">>) => value = "application/pdf"
                    /\ (HasExtension(name, <<".", "t", "x", "t">>)
                            \/ HasExtension(name, <<".", "t", "e", "x", "t">>))
                        => value = "text/plain"
                    /\ (/\ ~HasExtension(name, <<".", "p", "d", "f">>)
                        /\ ~HasExtension(name, <<".", "t", "x", "t">>)
                        /\ ~HasExtension(name, <<".", "t", "e", "x", "t">>))
                        => value = "application/octet-stream"
            /\ value \in {"application/pdf", "text/plain", "application/octet-stream",
                          "image/png"}

\* An upper-case extension after a dotted stem, with an empty provided type.
C19_Witness ==
    /\ mime # None
    /\ mime[1].file_name = <<"a", ".", "b", ".", "P", "D", "F">>
    /\ mime[1].provided_type = Some("")
    /\ mime[1].value = "application/pdf"

----------------------------------------------------------------------------
(* Concurrent callers of get_or_create_store: the list call and the create
   call of one caller are two remote calls, other callers run in between *)

RaceCaller(display_name, pc, listed, outcome, value, creates) ==
    [display_name |-> display_name, pc |-> pc, listed |-> listed,
     outcome |-> outcome, value |-> value, creates |-> creates]

InitRace ==
    /\ InitLocals
    /\ stores \in StoreListings
    /\ nextStoreId = Len(stores) + 1
    /\ docs = <<>>
    /\ appPc = "race"
    /\ latencies = {0}

raceRest == <<docs, sessVars, appVars, batchVars, pipeVars, pipeObs, clearVars, gocVars,
              catalog, mime>>

\* A caller enters get_or_create_store(client, display_name).
RaceBegin ==
    /\ appPc = "race"
    /\ Len(race) < MaxCallers
    /\ \E display_name \in StoreNames :
            race' = Append(race, RaceCaller(display_name, "list", None, "running", None, 0))
    /\ UNCHANGED <<stores, nextStoreId, raceRest>>

\* stores = client.file_search_stores.list(): the caller gets the listing of
\* this moment, or the call faults and the fault propagates.
RaceList(c) ==
    /\ c \in DOMAIN race
    /\ race[c].pc = "list"
    /\ \/ race' = [race EXCEPT ![c].pc = "scan", ![c].listed = Some(stores)]
       \/ race' = [race EXCEPT ![c].pc = "done", ![c].outcome = "raised"]
    /\ UNCHANGED <<stores, nextStoreId, raceRest>>

\* for store in stores: return the first match's name; otherwise
\* client.file_search_stores.create(...) and return the new store's name.  The
\* scan is over the listing the caller holds, not over the stores of now.
RaceFinishWith(c, createOnce) ==
    /\ c \in DOMAIN race
    /\ race[c].pc = "scan"
    /\ LET mine == race[c].listed[1]
           display_name == race[c].display_name
           m == FirstMatch(mine, display_name)
           now == FirstMatch(stores, display_name)
       IN  IF m # 0
           THEN /\ race' = [race EXCEPT ![c].pc = "done", ![c].outcome = "returned",
                                        ![c].value = Some(mine[m].name)]
                /\ UNCHANGED <<stores, nextStoreId>>
           ELSE \/ /\ createOnce /\ now # 0
                   /\ race' = [race EXCEPT ![c].pc = "done", ![c].outcome = "returned",
                                           ![c].value = Some(stores[now].name),
                                           ![c].creates = 1]
                   /\ UNCHANGED <<stores, nextStoreId>>
                \/ /\ ~(createOnce /\ now # 0)
                   /\ stores' = Append(stores, [name |-> nextStoreId,
                                                display_name |-> display_name])
                   /\ nextStoreId' = nextStoreId + 1
                   /\ race' = [race EXCEPT ![c].pc = "done", ![c].outcome = "returned",
                                           ![c].value = Some(nextStoreId),
                                           ![c].creates = 1]
                \/ /\ race' = [race EXCEPT ![c].pc = "done", ![c].outcome = "raised",
                                           ![c].creates = 1]      \* create() faults
                   /\ UNCHANGED <<stores, nextStoreId>>
    /\ UNCHANGED raceRest

\* A remote create that gives back the store of that display name when there
\* is one already.
RaceFinish_CreateOnce(c) == RaceFinishWith(c, TRUE)

RaceFinish(c) == RaceFinishWith(c, FALSE)

NextRace ==
    \/ RaceBegin
    \/ \E c \in 1..MaxCallers : RaceList(c)
    \/ \E c \in 1..MaxCallers : RaceFinish(c)

SpecRace == InitRace /\ [][NextRace]_vars

\* The stores of now that carry the display name.
StoresNamed(display_name) == {i \in DOMAIN stores : stores[i].display_name = display_name}

\* The caller returned the name of a store it created.
RaceCreated(c) ==
    /\ race[c].pc = "done"
    /\ race[c].outcome = "returned"
    /\ race[c].creates = 1

\* C25: get_or_create_store is not serialized.  Each caller decides on the
\* listing it took: it calls create exactly when that listing has no store of
\* the display name, whatever was created since.  So whenever two callers for
\* one display name both listed before either created, both create, they return
\* different store names, and two distinct stores of that display name exist.
C25_BothCallersCreate ==
    /\ \A c \in DOMAIN race :
            /\ race[c].creates = 1 =>
                    race[c].listed # None /\ FirstMatch(race[c].listed[1], race[c].display_name) = 0
            /\ (race[c].pc = "done" /\ race[c].listed # None
                    /\ FirstMatch(race[c].listed[1], race[c].display_name) = 0) =>
                    race[c].creates = 1
    /\ \A c, d \in DOMAIN race :
            (c # d /\ race[c].display_name = race[d].display_name
                   /\ RaceCreated(c) /\ RaceCreated(d)) =>
                /\ race[c].value # race[d].value
                /\ \E i, j \in StoresNamed(race[c].display_name) :
                        /\ i # j
                        /\ stores[i].name = race[c].value[1]
                        /\ stores[j].name = race[d].value[1]
                        /\ stores[i].name # stores[j].name

\* Two callers for one display name that no store had at the start: both
\* listed, both created, and two stores of that display name exist.
C25_Witness ==
    /\ Len(race) = 2
    /\ race[1].display_name = store_display_name
    /\ race[2].display_name = store_display_name
    /\ race[1].listed = race[2].listed
    /\ race[1].listed # None
    /\ FirstMatch(race[1].listed[1], store_display_name) = 0
    /\ RaceCreated(1)
    /\ RaceCreated(2)
    /\ Cardinality(StoresNamed(store_display_name)) = 2

----------------------------------------------------------------------------
(* Claims about the two upload paths (specification SpecUpload) *)

\* The call is past the upload and the import: it polls, verifies, cleans up
\* or has returned.
PastUpload == upc \notin {"idle", "tmp", "upload", "stage", "import"}

\* C21: when the operation returned by the upload or the import is already
\* done at its first inspection, the run reaches its end with no sleep, no
\* fetch of the operation and no progress event, on the operation as returned.
C21_DoneAtFirstInspection ==
    (PastUpload /\ operation # None /\ operation.done) =>
        /\ calls["sleep"] = 0
        /\ calls["opget"] = 0
        /\ calls["sink"] = 0
        /\ current = operation
        /\ clock = 0
        /\ Returned =>
                \/ ~Truthy(operation.name) /\ result = Failure(NoNameMsg)
                \/ /\ Truthy(operation.name)
                   /\ operation.error # None
                   /\ result = Failure(RemoteMsg(operation.error[1]))
                \/ /\ Truthy(operation.name)
                   /\ operation.error = None
                   /\ result \in {Success} \cup {Failure(StateMsg(st)) : st \in DocStates}

\* A direct upload whose operation came back done, with a sink supplied: the
\* call returned its success without a sleep, a fetch or an event.
C21_Witness ==
    /\ Returned
    /\ operation # None
    /\ operation.done
    /\ Truthy(operation.name)
    /\ status_callback = "sink"
    /\ result = Success
    /\ calls["sleep"] = 0
    /\ calls["opget"] = 0
    /\ calls["sink"] = 0

C23_FallbackIffApiError ==
    /\ calls["upload"] <= 1
    /\ calls["stage"] <= 1
    /\ calls["import"] <= 1
    /\ apiErr => calls["upload"] = 1
    /\ (apiErr /\ upc # "stage") <=> calls["stage"] = 1
    /\ ~apiErr =>
            /\ calls["stage"] = 0
            /\ calls["import"] = 0
            /\ calls["stagedDelete"] = 0
            /\ stagedRet = None
    /\ (Returned /\ calls["upload"] = 1 /\ ~apiErr /\ operation = None) =>
            /\ \E m \in FaultMsgs : result = Failure(ExcMsg(m))
            /\ calls["opget"] = 0
    /\ calls["import"] = 1 => Truthy(stagedRet) /\ importArg = stagedRet
    /\ (Returned /\ calls["stage"] = 1 /\ stagedRet # None /\ ~Truthy(stagedRet)) =>
            calls["import"] = 0 /\ result = Failure(NoResourceMsg)

\* The direct upload raised a fault that is no APIError: the call returned
\* the failure without staging.
C23_Witness ==
    /\ Returned
    /\ calls["upload"] = 1
    /\ ~apiErr
    /\ operation = None
    /\ Faulted
    /\ calls["stage"] = 0
    /\ calls["import"] = 0

----------------------------------------------------------------------------
(* Claims about the progress sink (specification SpecUpload) *)

\* C24: progress telemetry never affects scheduling: a run with a sink, even
\* one that raises, sleeps, fetches and returns as the run without a sink does
\* on the same operation snapshots.  A run without a sink never returns a
\* result made from a fault of the sink and never leaves the poll loop while
\* the snapshot is not done and the timeout has not passed, unless a fetch
\* faulted; so no run may.
C24_SinkNeverAffectsRun ==
    Returned =>
        /\ result # Failure(ExcMsg(SinkFaultMsg))
        /\ (calls["sink"] > 0 /\ ~current.done /\ result # Failure(TimeoutMsg)) =>
                \E m \in FaultMsgs : result = Failure(ExcMsg(m))

----------------------------------------------------------------------------
(* Termination of the poll loop (specification SpecPollFair) *)

\* The call is inside the while loop: at its test, at the progress report, at
\* the sleep or at the fetch.
InLoop == upc \in {"loop", "report", "sleep", "fetch"}

\* C26 as claimed: the poll loop ends in DONE_OK, DONE_ERROR or TIMED_OUT and
\* nothing else, after at most 32 fetches of the operation (the loop tests the
\* timeout after 0, 2, 6, 14, 30 and then every 32 seconds; 926 is the first
\* value above 900).
C26_ThreeWaysOut ==
    /\ calls["opget"] <= 32
    /\ (Returned /\ Polled) =>
            \/ current.done /\ current.error = None
            \/ current.done /\ current.error # None
            \/ ~current.done /\ result = Failure(TimeoutMsg)

\* The seconds slept in the first k sleeps: 2 + 4 + 8 + 16 + 32 + 32 + ...
SleptIn(k) == IF k <= 5 THEN 2^(k + 1) - 2 ELSE 62 + max_wait_time * (k - 5)

\* C26: every run of the poll loop ends, given that each remote call returns or
\* faults and that the clock advances by each sleep.  It ends with the snapshot
\* done (with or without an error), with the timeout failure, or, the snapshot
\* still not done, with the failure made from a fault of operations.get or of
\* the progress sink.  The time elapsed is at least 2 + 4 + 8 + 16 + 32 + 32 + ...
\* over the sleeps made, the timeout failure comes only after 900 seconds, and
\* the operation is fetched at most 32 times, once after each sleep.
C26_LoopEnds ==
    /\ InLoop ~> ~InLoop
    /\ [](calls["opget"] <= 32)
    /\ [](calls["opget"] <= calls["sleep"])
    /\ [](clock >= SleptIn(calls["sleep"]))
    /\ []((Returned /\ result = Failure(TimeoutMsg)) => elapsed > timeout_seconds)
    /\ []((Returned /\ Polled /\ ~current.done) =>
            \/ result = Failure(TimeoutMsg)
            \/ Faulted /\ calls["opget"] + calls["sink"] > 0)

\* An operation that was never done: the run fetched it 32 times and timed out.
C26_Witness ==
    /\ Returned
    /\ Polled
    /\ ~current.done
    /\ calls["opget"] = 32
    /\ calls["sleep"] = 32
    /\ result = Failure(TimeoutMsg)

====
